---- MODULE Spec2Model ----
(***************************************************************************)
(* Reveal-order, visibility-mask, mask-cache and frame-composition logic   *)
(* of the ASCII animation generator (src/artanimation).                    *)
(*                                                                         *)
(* A grid of rows x cols cells is held by the program as one string        *)
(* (ascii_str) whose rows are joined by newline separators, so a cell      *)
(* (r, c) sits at string position r*(cols+1)+c and has the cell linear     *)
(* index r*cols+c.  Masks are sets of string positions (the keys of the    *)
(* char_mask dict).                                                        *)
(*                                                                         *)
(* Floating point: the program compares and rounds doubles.  Where the     *)
(* exact rational value decides the outcome the model computes it with     *)
(* integers.  round() is computed half-to-even on the exact product, with  *)
(* the table DoubleOffHalf listing the inputs whose double product is off  *)
(* the exact half.  Where the exact value sits on a decision boundary (a   *)
(* progress distance that is exactly 0.03, two cached frames at exactly    *)
(* the same distance) the double result can fall on either side and the    *)
(* model allows both outcomes.                                             *)
(***************************************************************************)
EXTENDS Integers, Sequences, FiniteSets, TLC

VARIABLES
    style,            \* ANIMATION_STYLE
    rows, cols,       \* grid shape of ascii_str
    fps, duration,    \* FPS, VIDEO_DURATION_SECONDS
    indices,          \* create_ascii_frame.indices (<<>> until first computed)
    MASK_CACHE,       \* memory_manager.MASK_CACHE: entries in dict (insertion) order
    MEMORY_PRESSURE,  \* memory_manager.MEMORY_PRESSURE
    storedTotal,      \* history: total_frames each cached frame index was stored with
    lastCall,         \* history: the last call made on the mask cache
    lookupResult,     \* history: what the last get_cached_mask call returned
    nops,             \* history: number of direct calls made on the mask cache
    pc,               \* position in main / generate_frames
    batch_idx, batch_size, end_idx, current_batch_size,
    frame_index,      \* next frame of the current batch
    frames,           \* frame files written so far: frame index -> cells drawn
    USE_COLOR, OPTIMIZATION_LEVEL, PRERENDER_AVAILABLE,
    char_mask,        \* the mask handed to the rendering part of create_ascii_frame
    color_data,       \* the color_data argument (present or None)
    glyph,            \* cv2.getTextSize of the grid's symbol: width, height, baseline
    canvas,           \* the composed frame: string position -> color it was drawn in
    composed,         \* "no" before composing, then "done" or "error"
    twinCache,        \* the mask cache of a second run of the same animation
    twinFrames,       \* the frames of that second run
    image,            \* main: number of images already processed in this process
    CHAR_CACHE,       \* prerender_optimizer.CHAR_CACHE: the symbols it holds a glyph for
    PRERENDER_MEMORY_PRESSURE,  \* prerender_optimizer.MEMORY_PRESSURE
    glyphPhase,       \* history: "idle", "signalled", then "composed" after the signal
    heap,             \* the mask arrays alive in the process: object -> its contents
    maskObj,          \* MASK_CACHE as a dict of objects: frame index -> object
    held,             \* the arrays the caller of the cache holds a reference to
    rng,              \* the state of the generator of module random
    seqCall,          \* history: the last call of a sequencer and what it returned
    seqFirst,         \* history: call -> what the first such call returned
    ants,             \* create_ants_indices: the ants' positions
    walkIndices,      \* create_ants_indices: indices
    visited,          \* create_ants_indices: visited
    walkStep,         \* create_ants_indices: walking steps completed
    walkAnt,          \* create_ants_indices: the ant to move next
    walkGrid,         \* create_ants_indices: <<cols, rows>>
    walkLast          \* history: what the last move of an ant appended and where it stood

vars == <<style, rows, cols, fps, duration, indices, MASK_CACHE, MEMORY_PRESSURE,
          storedTotal, lastCall, lookupResult, nops, pc, batch_idx, batch_size,
          end_idx, current_batch_size, frame_index, frames, USE_COLOR,
          OPTIMIZATION_LEVEL, PRERENDER_AVAILABLE, char_mask, color_data, glyph, canvas, composed,
          twinCache, twinFrames, image, CHAR_CACHE, PRERENDER_MEMORY_PRESSURE,
          glyphPhase, heap, maskObj, held, rng, seqCall, seqFirst, ants, walkIndices,
          visited, walkStep, walkAnt, walkGrid, walkLast>>

(***************************************************************************)
(* Bounds of the model.                                                    *)
(***************************************************************************)
MaxRows == 4
MaxCols == 3
MaxShuffle == 3
MaxFps == 31
MaxDuration == 3
MaxIndex == 24
MaxOps == 2
MaxComposeRows == 2
MaxComposeCols == 2
MaxTwinDuration == 4
MaxImages == 2
MaxMainFrames == 6
MaxConfigFps == 2
MaxConfigDuration == 2
MaxSymbols == 52
MaxAliasOps == 3
RngModulus == 6
MaxSeed == 1
MaxWalkCols == 2
MaxWalkRows == 1
MaxAnts == 2
MaxAntCols == 2
MaxAntRows == 2
MaxBatchDuration == 9
MaxSlowIdx == 72
SmallGlyph == 8

(***************************************************************************)
(* Program constants.                                                      *)
(***************************************************************************)
MASK_CACHE_SIZE_LIMIT == 20
BaseBatchSize == 48
CachePeriod == 15
IMG_WIDTH == 1080
IMG_HEIGHT == 1920
GlyphMargin == 4
GLYPH_PRUNE_ABOVE == 50
GLYPH_TOP_N == 40
ANTS_SEED == 42
NUM_ANTS == 10

TEXT_COLOR == <<255, 255, 255>>
\* a color_data entry of None (the entry of a newline)
None == << >>

Styles == {"line", "matrix", "ants", "random"}

Abs(x) == IF x < 0 THEN -x ELSE x
Min(a, b) == IF a < b THEN a ELSE b
Max(a, b) == IF a < b THEN b ELSE a

\* get_cached_mask returning None; a returned mask is tagged with the frame
\* index of the entry it was copied from
NoMask == [found |-> FALSE, frame |-> -1, mask |-> {}]
NoCall == [op |-> "none", frame |-> -1, total |-> 0, lenBefore |-> 0, hadKey |-> FALSE]

(***************************************************************************)
(* The grid as the program holds it.                                       *)
(***************************************************************************)
\* len(ascii_str): rows*cols characters and rows-1 newlines
StrLen(c, r) == r * c + r - 1

\* ascii_str[p] == '\n'
IsNewline(p, c) == p % (c + 1) = c

\* the string positions that hold a character of the grid
CellPositions(c, r) == {p \in 0..(StrLen(c, r) - 1) : ~IsNewline(p, c)}

\* total_chars = len(ascii_str.replace('\n', ''))
TotalChars(c, r) == Cardinality(CellPositions(c, r))

\* the cell linear index (row-major, newlines not counted) of string position p
CellOf(p, c) == (p \div (c + 1)) * c + (p % (c + 1))

\* create_ascii_frame.index_mapping: char_count -> position in ascii_str,
\* built by counting the non-newline characters before each position
IndexMapping(c, r) ==
    [k \in 0..(TotalChars(c, r) - 1) |->
        CHOOSE p \in CellPositions(c, r) :
            Cardinality({q \in CellPositions(c, r) : q < p}) = k]

(***************************************************************************)
(* RevealSequencer: the four reveal orders.                                *)
(***************************************************************************)
\* every ordering of the elements of S
PermSeqs(S) ==
    {s \in [1..Cardinality(S) -> S] : \A i, j \in DOMAIN s : i # j => s[i] # s[j]}

\* list(range(total_chars))
LineIndices(n) == [k \in 1..n |-> k - 1]

\* create_matrix_indices: for x in range(cols): for y in range(rows):
\*   idx = y*(cols+1)+x, kept when inside the string and not a newline
create_matrix_indices(c, r) ==
    LET raw == [k \in 1..(c * r) |-> ((k - 1) % r) * (c + 1) + ((k - 1) \div r)]
    IN  SelectSeq(raw, LAMBDA idx : idx < StrLen(c, r) /\ ~IsNewline(idx, c))

\* create_random_indices: a shuffle of range(total_chars); every outcome
create_random_indices(n) == PermSeqs(0..(n - 1))

\* create_ants_indices: every outcome of the walk.  The walk appends string
\* positions idx = y*(cols+1)+x of grid cells, never one twice (visited), then
\* the unvisited non-newline positions in shuffled order, and returns the
\* first total_chars of them.  The num_ants = 10 ants start on arbitrary
\* cells, so for grids of at most 10 cells any ordering of the cell positions
\* can already be appended in the first step.
create_ants_indices(c, r) == PermSeqs(CellPositions(c, r))

\* create_ascii_frame, lines 336-348: the order for ANIMATION_STYLE
IndicesFor(st, c, r) ==
    IF st = "line" THEN {LineIndices(TotalChars(c, r))}
    ELSE IF st = "matrix" THEN {create_matrix_indices(c, r)}
    ELSE IF st = "ants" THEN create_ants_indices(c, r)
    ELSE create_random_indices(TotalChars(c, r))

(***************************************************************************)
(* Per-frame mask computation (create_ascii_frame, lines 356-417).         *)
(***************************************************************************)
\* round() of the exact quotient num/den: nearest integer, halves to even
PyRound(num, den) ==
    LET fl == num \div den
        twice == 2 * (num % den)
    IN  IF twice < den THEN fl
        ELSE IF twice > den THEN fl + 1
        ELSE IF fl % 2 = 0 THEN fl ELSE fl + 1

\* The program rounds the double product (frame_index + 1) * (total_chars /
\* total_frames).  It differs from the exact quotient only by rounding error,
\* which changes round() only when the exact quotient is k + 1/2 and the
\* double falls on the other side.  These are all the <<total_chars,
\* total_frames, frame_index>> with total_chars <= 20 and total_frames <= 130
\* where IEEE double arithmetic does that.
DoubleOffHalf ==
    {<<15, 22, 10>>, <<15, 26, 12>>, <<15, 44, 21>>, <<15, 52, 25>>, <<9, 66, 54>>,
     <<12, 88, 54>>, <<15, 88, 43>>, <<3, 94, 46>>, <<14, 100, 74>>, <<15, 104, 51>>,
     <<7, 110, 54>>, <<15, 110, 54>>, <<15, 110, 98>>}

\* int(round((frame_index + 1) * chars_per_frame))
RoundedChars(f, T, n) ==
    LET num == (f + 1) * n
        fl == num \div T
    IN  IF <<n, T, f>> \in DoubleOffHalf
        THEN fl + (fl + 1) - PyRound(num, T)
        ELSE PyRound(num, T)

\* chars_to_display
CharsToDisplay(f, T, n) ==
    IF f >= T THEN n ELSE Min(RoundedChars(f, T, n), n)

\* the freshly built char_mask: indices[:chars_to_display], each looked up in
\* index_mapping and dropped when it is not one of its keys
BuildMask(order, n, c, r) ==
    LET m == IndexMapping(c, r)
        used == {i \in 1..Min(n, Len(order)) : order[i] \in DOMAIN m}
    IN  {m[order[i]] : i \in used}

(***************************************************************************)
(* FrameMaskCache (memory_manager.py).                                     *)
(***************************************************************************)
Keys(cache) == {cache[i].frame : i \in DOMAIN cache}

MaskAt(cache, k) == (CHOOSE e \in {cache[i] : i \in DOMAIN cache} : e.frame = k).mask

\* get_cached_mask returning any entry within the tolerance
get_cached_mask_within(cache, f, T) ==
    LET near == {i \in DOMAIN cache : 100 * Abs(cache[i].frame - f) < 3 * T}
    IN  IF near = {} THEN {NoMask}
        ELSE {[found |-> TRUE, frame |-> cache[i].frame, mask |-> cache[i].mask] : i \in near}

\* get_cached_mask: every value the call can return
get_cached_mask(cache, f, T) ==
    IF Len(cache) = 0 THEN {NoMask}
    ELSE
        LET dist(i) == Abs(cache[i].frame - f)
            best == CHOOSE d \in {dist(i) : i \in DOMAIN cache} :
                        \A i \in DOMAIN cache : d <= dist(i)
            closest == {i \in DOMAIN cache : dist(i) = best}
            hit == {[found |-> TRUE, frame |-> cache[i].frame, mask |-> cache[i].mask] :
                        i \in closest}
        IN  IF 100 * best < 3 * T THEN hit
            ELSE IF 100 * best = 3 * T THEN hit \cup {NoMask}
            ELSE {NoMask}

\* to_keep = set(int(i * total_frames / LIMIT) for i in range(LIMIT))
Boundaries(T) ==
    {(i * T) \div MASK_CACHE_SIZE_LIMIT : i \in 0..(MASK_CACHE_SIZE_LIMIT - 1)}

\* min(abs(cached_frame - boundary) for boundary in to_keep)
MinDistance(k, T) ==
    LET ds == {Abs(k - b) : b \in Boundaries(T)}
    IN  CHOOSE d \in ds : \A e \in ds : d <= e

\* frame_to_remove chosen as an entry nearest to a boundary
FrameToRemoveNearest(cache, T) ==
    IF cache = << >> THEN -1
    ELSE cache[CHOOSE i \in DOMAIN cache :
                  \A j \in DOMAIN cache :
                      MinDistance(cache[i].frame, T) <= MinDistance(cache[j].frame, T)].frame

\* frame_to_remove: the first entry, in dict order, whose distance to its
\* nearest boundary is the largest and above 0; -1 stands for None
FrameToRemove(cache, T) ==
    LET md == [i \in DOMAIN cache |-> MinDistance(cache[i].frame, T)]
        cand == {i \in DOMAIN cache :
                    /\ md[i] > 0
                    /\ \A j \in DOMAIN cache : md[j] <= md[i]
                    /\ \A j \in 1..(i - 1) : md[j] < md[i]}
    IN  IF cand = {} THEN -1 ELSE cache[CHOOSE i \in cand : TRUE].frame

\* the oldest entry of the dict deleted instead
RemoveOldest(cache, k) == IF cache = << >> THEN cache ELSE Tail(cache)

\* del MASK_CACHE[k]
Remove(cache, k) == SelectSeq(cache, LAMBDA e : e.frame # k)

\* MASK_CACHE[f] = mask.copy(): an existing key keeps its place in the dict
Put(cache, f, mask) ==
    IF f \in Keys(cache)
    THEN [i \in DOMAIN cache |->
            IF cache[i].frame = f THEN [frame |-> f, mask |-> mask] ELSE cache[i]]
    ELSE Append(cache, [frame |-> f, mask |-> mask])

\* cache_mask with the capacity check left out
cache_mask_unbounded(cache, f, mask, T) == Put(cache, f, mask)

\* cache_mask
cache_mask(cache, f, mask, T) ==
    IF Len(cache) >= MASK_CACHE_SIZE_LIMIT
    THEN IF f \in Keys(cache) THEN cache
         ELSE IF f \in Boundaries(T)
              THEN LET rm == FrameToRemove(cache, T)
                   IN  Put(IF rm # -1 THEN Remove(cache, rm) ELSE cache, f, mask)
              ELSE cache
    ELSE Put(cache, f, mask)

\* sorted(list(MASK_CACHE.keys()))[::2]
EveryOtherKey(cache) ==
    {k \in Keys(cache) : Cardinality({j \in Keys(cache) : j < k}) % 2 = 0}

\* signal_memory_pressure with the size test left out
signal_memory_pressure_always(cache) ==
    SelectSeq(cache, LAMBDA e : e.frame \in EveryOtherKey(cache))

\* signal_memory_pressure: the cache it leaves
signal_memory_pressure(cache) ==
    IF Len(cache) > MASK_CACHE_SIZE_LIMIT \div 2
    THEN SelectSeq(cache, LAMBDA e : e.frame \in EveryOtherKey(cache))
    ELSE cache

\* clear_cache
clear_cache(cache) == << >>

(***************************************************************************)
(* SpecCache: the mask cache driven directly through its five operations,  *)
(* with arbitrary frame indices and total_frames values, starting from a   *)
(* cache warmed up by n earlier stores (n = 0 is the empty cache).         *)
(***************************************************************************)
Totals == {MaxIndex, 4 * MaxIndex}

\* frame indices passed to the calls: around the capacity, so that cached,
\* boundary and non-boundary indices all occur on a full cache
FrameArgs == (MASK_CACHE_SIZE_LIMIT - 1)..MaxIndex

\* the mask passed to a store of frame f
MaskArg(f) == 0..f

\* the cache after storing frames 0, step, ..., (n-1)*step with total_frames T
RECURSIVE Warm(_, _, _)
Warm(n, step, T) ==
    IF n = 0 THEN << >>
    ELSE cache_mask(Warm(n - 1, step, T), (n - 1) * step, MaskArg((n - 1) * step), T)

composeVars == <<USE_COLOR, OPTIMIZATION_LEVEL, PRERENDER_AVAILABLE, char_mask,
                 color_data, glyph, canvas, composed>>

\* state of the other specifications, idle in this one
glyphVars == <<CHAR_CACHE, PRERENDER_MEMORY_PRESSURE, glyphPhase>>

aliasVars == <<heap, maskObj, held>>

randomVars == <<rng, seqCall, seqFirst>>

walkVars == <<ants, walkIndices, visited, walkStep, walkAnt, walkGrid, walkLast>>

NoSeqCall == [fn |-> "none", arg |-> <<0, 0>>, seed |-> -1, result |-> << >>]
NoFirst == [fn |-> "none", arg |-> <<0, 0>>, seed |-> -1, result |-> << >>, rng |-> 0,
            again |-> FALSE, done |-> FALSE]
NoAppend == [ant |-> 0, at |-> <<0, 0>>, appended |-> -1]

randomIdle == rng = 0 /\ seqCall = NoSeqCall /\ seqFirst = NoFirst

walkIdle ==
    /\ ants = << >> /\ walkIndices = << >> /\ visited = {}
    /\ walkStep = 0 /\ walkAnt = 0 /\ walkGrid = <<0, 0>> /\ walkLast = NoAppend

extraVars == <<twinCache, twinFrames, image, glyphVars, aliasVars, randomVars, walkVars>>

extraIdle ==
    /\ twinCache = << >> /\ twinFrames = << >>
    /\ image = 0
    /\ CHAR_CACHE = {} /\ PRERENDER_MEMORY_PRESSURE = FALSE /\ glyphPhase = "idle"
    /\ heap = << >> /\ maskObj = << >> /\ held = << >>
    /\ randomIdle /\ walkIdle

composeIdle ==
    /\ USE_COLOR = FALSE /\ OPTIMIZATION_LEVEL = 0 /\ PRERENDER_AVAILABLE = FALSE
    /\ char_mask = {}
    /\ color_data = [present |-> FALSE, colors |-> << >>]
    /\ glyph = [w |-> 0, h |-> 0, baseline |-> 0]
    /\ canvas = << >> /\ composed = "no"

driverIdle ==
    /\ style = "line" /\ rows = 1 /\ cols = 1 /\ fps = 1 /\ duration = 1
    /\ indices = << >> /\ batch_idx = 0 /\ batch_size = BaseBatchSize
    /\ end_idx = 0 /\ current_batch_size = 0 /\ frame_index = 0
    /\ frames = << >>

driverVars == <<style, rows, cols, fps, duration, indices, pc, batch_idx, batch_size,
                end_idx, current_batch_size, frame_index, frames>>

InitCache ==
    /\ driverIdle
    /\ composeIdle
    /\ extraIdle
    /\ pc = "api"
    /\ \E n \in 0..MASK_CACHE_SIZE_LIMIT, step \in 1..2 :
          /\ MASK_CACHE = Warm(n, step, MaxIndex)
          /\ storedTotal = [k \in Keys(MASK_CACHE) |-> MaxIndex]
    /\ MEMORY_PRESSURE = FALSE
    /\ lastCall = NoCall
    /\ lookupResult = NoMask
    /\ nops = 0

Called(op, f, T) ==
    [op |-> op, frame |-> f, total |-> T, lenBefore |-> Len(MASK_CACHE),
     hadKey |-> f \in Keys(MASK_CACHE)]

\* mm.cache_mask(frame_index, mask, total_frames)
Store(f, T) ==
    /\ nops < MaxOps
    /\ MASK_CACHE' = cache_mask(MASK_CACHE, f, MaskArg(f), T)
    /\ storedTotal' = [k \in Keys(MASK_CACHE') |->
                         IF k = f /\ (f \notin Keys(MASK_CACHE)
                                      \/ Len(MASK_CACHE) < MASK_CACHE_SIZE_LIMIT)
                         THEN T ELSE storedTotal[k]]
    /\ lastCall' = Called("store", f, T)
    /\ lookupResult' = NoMask
    /\ nops' = nops + 1
    /\ UNCHANGED <<MEMORY_PRESSURE, driverVars, composeVars, extraVars>>

\* mm.get_cached_mask(frame_index, total_frames)
Lookup(f, T) ==
    /\ nops < MaxOps
    /\ lookupResult' \in get_cached_mask(MASK_CACHE, f, T)
    /\ lastCall' = Called("lookup", f, T)
    /\ nops' = nops + 1
    /\ UNCHANGED <<MASK_CACHE, storedTotal, MEMORY_PRESSURE, driverVars, composeVars, extraVars>>

\* mm.signal_memory_pressure()
SignalPressure ==
    /\ nops < MaxOps
    /\ MEMORY_PRESSURE' = TRUE
    /\ MASK_CACHE' = signal_memory_pressure(MASK_CACHE)
    /\ storedTotal' = [k \in Keys(MASK_CACHE') |-> storedTotal[k]]
    /\ lastCall' = Called("signal", -1, 0)
    /\ lookupResult' = NoMask
    /\ nops' = nops + 1
    /\ UNCHANGED <<driverVars, composeVars, extraVars>>

\* reset_memory_pressure that also empties the cache
ResetPressureAndClear ==
    /\ nops < MaxOps
    /\ MEMORY_PRESSURE' = FALSE
    /\ MASK_CACHE' = << >>
    /\ storedTotal' = << >>
    /\ lastCall' = Called("reset", -1, 0)
    /\ lookupResult' = NoMask
    /\ nops' = nops + 1
    /\ UNCHANGED <<driverVars, composeVars, extraVars>>

\* mm.reset_memory_pressure()
ResetPressure ==
    /\ nops < MaxOps
    /\ MEMORY_PRESSURE' = FALSE
    /\ lastCall' = Called("reset", -1, 0)
    /\ lookupResult' = NoMask
    /\ nops' = nops + 1
    /\ UNCHANGED <<MASK_CACHE, storedTotal, driverVars, composeVars, extraVars>>

\* mm.clear_cache()
Clear ==
    /\ nops < MaxOps
    /\ MASK_CACHE' = clear_cache(MASK_CACHE)
    /\ storedTotal' = << >>
    /\ lastCall' = Called("clear", -1, 0)
    /\ lookupResult' = NoMask
    /\ nops' = nops + 1
    /\ UNCHANGED <<MEMORY_PRESSURE, driverVars, composeVars, extraVars>>

NextCache ==
    \/ \E f \in FrameArgs, T \in Totals : Store(f, T)
    \/ \E f \in FrameArgs, T \in Totals : Lookup(f, T)
    \/ SignalPressure
    \/ ResetPressure
    \/ Clear

SpecCache == InitCache /\ [][NextCache]_vars

(***************************************************************************)
(* C5: after any sequence of store, lookup, signal_pressure,               *)
(* reset_pressure and clear calls the mask cache never holds more than     *)
(* MASK_CACHE_SIZE_LIMIT (20) entries, and no frame index twice.           *)
(***************************************************************************)
C5_CapacityNeverExceeded ==
    /\ Len(MASK_CACHE) <= MASK_CACHE_SIZE_LIMIT
    /\ Cardinality(Keys(MASK_CACHE)) = Len(MASK_CACHE)

\* a store on a full cache that evicted an entry and inserted the new frame
C5_Witness ==
    /\ lastCall.op = "store"
    /\ lastCall.lenBefore = MASK_CACHE_SIZE_LIMIT
    /\ ~lastCall.hadKey
    /\ lastCall.frame \in Keys(MASK_CACHE)
    /\ Len(MASK_CACHE) = MASK_CACHE_SIZE_LIMIT

\* C6: a lookup returns a mask only when the progress ratio the returned
\* entry was stored with (its frame index over the total_frames of its
\* store) is within 0.03 of the query's ratio; with an empty cache, or no
\* entry within the tolerance, it returns not-found.
C6_StoredRatioWithinTolerance ==
    (lastCall.op = "lookup" /\ lookupResult.found) =>
        LET g == lookupResult.frame
            Ts == storedTotal[g]
            f == lastCall.frame
            T == lastCall.total
        IN  100 * Abs(g * T - f * Ts) <= 3 * T * Ts

(***************************************************************************)
(* Spec: one animation run, generate_frames driving create_ascii_frame.    *)
(***************************************************************************)
\* total_frames = FPS * VIDEO_DURATION_SECONDS
TotalFrames == fps * duration

\* hold_frames = int(HOLD_FINAL_FRAME_SECONDS * FPS), HOLD_FINAL_FRAME_SECONDS = 1.5
HoldFrames == (3 * fps) \div 2

\* the mask part of create_ascii_frame for one frame: every outcome, as the
\* mask drawn, whether it came from the cache, and the cache afterwards
FrameOutcomes(f, T, order, cache, c, r) ==
    LET n == CharsToDisplay(f, T, TotalChars(c, r))
        fresh == BuildMask(order, n, c, r)
        looked == IF 2 * f > T THEN get_cached_mask(cache, f, T) ELSE {NoMask}
        cached == IF f % CachePeriod = 0 \/ f = T \/ 5 * f > 4 * T
                  THEN cache_mask(cache, f, fresh, T)
                  ELSE cache
    IN  {IF l.found
         THEN [mask |-> l.mask, reuse |-> TRUE, from |-> l.frame, cache |-> cache]
         ELSE [mask |-> fresh, reuse |-> FALSE, from |-> f, cache |-> cached] :
            l \in looked}

Frame(o) == [mask |-> o.mask, reuse |-> o.reuse, from |-> o.from]

cacheHistory == <<storedTotal, lastCall, lookupResult, nops>>
config == <<style, rows, cols, fps, duration, composeVars, extraVars>>

Init ==
    /\ style \in Styles
    /\ rows \in 1..MaxRows
    /\ cols \in 1..MaxCols
    /\ style \in {"ants", "random"} => rows * cols <= MaxShuffle
    /\ fps \in 1..MaxFps
    /\ duration \in 1..MaxDuration
    /\ indices = << >>
    /\ MASK_CACHE = << >>
    /\ MEMORY_PRESSURE = FALSE
    /\ storedTotal = << >>
    /\ lastCall = NoCall
    /\ lookupResult = NoMask
    /\ nops = 0
    /\ pc = "start"
    /\ batch_idx = 0
    /\ batch_size = BaseBatchSize
    /\ end_idx = 0
    /\ current_batch_size = 0
    /\ frame_index = 0
    /\ frames = << >>
    /\ composeIdle
    /\ extraIdle

\* generate_frames up to its loop: batch_size = 48 and the dummy frame, the
\* first create_ascii_frame call, which computes and keeps the reveal order
GenerateFramesStart ==
    /\ pc = "start"
    /\ indices' \in (IF indices = << >> THEN IndicesFor(style, cols, rows) ELSE {indices})
    /\ \E o \in FrameOutcomes(0, TotalFrames, indices', MASK_CACHE, cols, rows) :
          MASK_CACHE' = o.cache
    /\ batch_size' = BaseBatchSize
    /\ batch_idx' = 0
    /\ pc' = "batch"
    /\ UNCHANGED <<config, MEMORY_PRESSURE, cacheHistory, end_idx, current_batch_size,
                   frame_index, frames>>

\* current_batch_size without the floors of 16 and 8, and the last third
\* taking an eighth
BatchSizeAtUnfloored(idx, T, base) ==
    IF 10 * idx < 3 * T THEN base
    ELSE IF 10 * idx < 7 * T THEN base \div 2
    ELSE base \div 8

\* current_batch_size for the batch starting at batch_idx
BatchSizeAt(idx, T, base) ==
    IF 10 * idx < 3 * T THEN base
    ELSE IF 10 * idx < 7 * T THEN Max(16, base \div 2)
    ELSE Max(8, base \div 4)

\* head of the while loop: a new batch
BatchBegin ==
    /\ pc = "batch"
    /\ batch_idx < TotalFrames
    /\ current_batch_size' = BatchSizeAt(batch_idx, TotalFrames, batch_size)
    /\ end_idx' = Min(batch_idx + current_batch_size', TotalFrames)
    /\ frame_index' = batch_idx
    /\ pc' = "frame"
    /\ UNCHANGED <<config, indices, MASK_CACHE, MEMORY_PRESSURE, cacheHistory,
                   batch_idx, batch_size, frames>>

\* one create_ascii_frame call of the batch
RenderFrame ==
    /\ pc = "frame"
    /\ frame_index < end_idx
    /\ \E o \in FrameOutcomes(frame_index, TotalFrames, indices, MASK_CACHE, cols, rows) :
          /\ MASK_CACHE' = o.cache
          /\ frames' = [f \in DOMAIN frames \cup {frame_index} |->
                          IF f = frame_index THEN Frame(o) ELSE frames[f]]
    /\ frame_index' = frame_index + 1
    /\ UNCHANGED <<config, indices, MEMORY_PRESSURE, cacheHistory, pc, batch_idx,
                   batch_size, end_idx, current_batch_size>>

\* progress_ratio % 0.1 < 0.01 on doubles: decided by the exact remainder,
\* and open on the two edges of the window, where the double remainder of an
\* exact multiple of 0.1 can come out just below 0.1 as well as near 0
ResetChoices(idx, T) ==
    LET s == (100 * idx) % (10 * T)
    IN  IF idx = 0 THEN {TRUE}
        ELSE IF s = 0 \/ s = T THEN {TRUE, FALSE}
        ELSE {s < T}

\* what BatchEnd leaves alone of the configuration and the other specifications
batchEndKeeps == <<style, rows, cols, fps, duration, composeVars, twinCache, twinFrames,
                   image, glyphPhase, aliasVars, randomVars, walkVars>>

\* end of a batch: the pressure flag reset, batch_idx = end_idx, and, when the
\* timing check sees the batch fall below 70% of the running rate (slow), the
\* base batch size halved and memory pressure signalled: to the glyph cache
\* if the prerender module was imported, and to the mask cache (twice, as
\* written)
BatchEnd(slow) ==
    /\ pc = "frame"
    /\ frame_index = end_idx
    /\ \E reset \in ResetChoices(batch_idx, TotalFrames) :
          MEMORY_PRESSURE' =
              IF slow /\ current_batch_size > 4 THEN TRUE
              ELSE IF reset THEN FALSE ELSE MEMORY_PRESSURE
    /\ batch_idx' = end_idx
    /\ IF slow /\ current_batch_size > 4
       THEN /\ batch_size' = Max(4, current_batch_size \div 2)
            /\ IF PRERENDER_AVAILABLE
               THEN /\ PRERENDER_MEMORY_PRESSURE' = TRUE
                    /\ CHAR_CACHE' \in {CHAR_CACHE, {}}
               ELSE UNCHANGED <<PRERENDER_MEMORY_PRESSURE, CHAR_CACHE>>
            /\ MASK_CACHE' = signal_memory_pressure(signal_memory_pressure(MASK_CACHE))
       ELSE UNCHANGED <<batch_size, MASK_CACHE, PRERENDER_MEMORY_PRESSURE, CHAR_CACHE>>
    /\ pc' = "batch"
    /\ UNCHANGED <<batchEndKeeps, indices, cacheHistory, end_idx, current_batch_size,
                   frame_index, frames>>

\* after the loop: the final complete frame, index total_frames
FinalFrame ==
    /\ pc = "batch"
    /\ batch_idx >= TotalFrames
    /\ \E o \in FrameOutcomes(TotalFrames, TotalFrames, indices, MASK_CACHE, cols, rows) :
          /\ MASK_CACHE' = o.cache
          /\ frames' = [f \in DOMAIN frames \cup {TotalFrames} |->
                          IF f = TotalFrames THEN Frame(o) ELSE frames[f]]
    /\ pc' = "hold"
    /\ UNCHANGED <<config, indices, MEMORY_PRESSURE, cacheHistory, batch_idx,
                   batch_size, end_idx, current_batch_size, frame_index>>

\* the hold loop started one index early: range(hold_frames) for
\* range(1, hold_frames + 1)
HoldFinalFrameFromZero ==
    /\ pc = "hold"
    /\ frames' = [f \in DOMAIN frames \cup (TotalFrames..(TotalFrames + HoldFrames - 1)) |->
                    IF f >= TotalFrames THEN frames[TotalFrames] ELSE frames[f]]
    /\ pc' = "done"
    /\ UNCHANGED <<config, indices, MASK_CACHE, MEMORY_PRESSURE, cacheHistory,
                   batch_idx, batch_size, end_idx, current_batch_size, frame_index>>

\* the hold frames: copies of the final frame file
HoldFinalFrame ==
    /\ pc = "hold"
    /\ frames' = [f \in DOMAIN frames \cup ((TotalFrames + 1)..(TotalFrames + HoldFrames)) |->
                    IF f > TotalFrames THEN frames[TotalFrames] ELSE frames[f]]
    /\ pc' = "done"
    /\ UNCHANGED <<config, indices, MASK_CACHE, MEMORY_PRESSURE, cacheHistory,
                   batch_idx, batch_size, end_idx, current_batch_size, frame_index>>

Next ==
    \/ GenerateFramesStart
    \/ BatchBegin
    \/ RenderFrame
    \/ \E slow \in BOOLEAN : BatchEnd(slow)
    \/ FinalFrame
    \/ HoldFinalFrame

Spec == Init /\ [][Next]_vars

\* frames of the reveal proper (index below total_frames) written so far
Revealed == {f \in DOMAIN frames : f < TotalFrames}

\* the cell linear indices drawn in frame f
CellsOf(f) == {CellOf(p, cols) : p \in frames[f].mask}

\* n is round(num/den), either neighbour allowed when num/den is k + 1/2
IsRounded(n, num, den) == 2 * Abs(n * den - num) <= den

(***************************************************************************)
(* C1: for all frame indices f1 < f2 below total_frames of one run, the    *)
(* mask used to render f1 is a subset of the mask used to render f2,       *)
(* cache hits included.                                                    *)
(***************************************************************************)
C1_MonotoneMasks ==
    \A f1, f2 \in Revealed : f1 < f2 => frames[f1].mask \subseteq frames[f2].mask

(***************************************************************************)
(* C2: the mask used to render frame index total_frames, the final frame,  *)
(* is the full set of the R*C cells.                                       *)
(***************************************************************************)
C2_FinalFrameFull ==
    TotalFrames \in DOMAIN frames =>
        frames[TotalFrames].mask = CellPositions(cols, rows)

(***************************************************************************)
(* C3: for every grid shape and style the reveal order handed to the mask  *)
(* computation has length R*C and is a bijection onto the cell linear      *)
(* indices 0..R*C-1.                                                       *)
(***************************************************************************)
C3_OrderIsPermutation ==
    pc # "start" =>
        /\ Len(indices) = rows * cols
        /\ {indices[i] : i \in DOMAIN indices} = 0..(rows * cols - 1)

(***************************************************************************)
(* C4: for style matrix the reveal order is column-major over cell linear  *)
(* indices: its k-th element (from 0) is (k mod R)*C + (k div R).          *)
(***************************************************************************)
C4_MatrixColumnMajor ==
    (pc # "start" /\ style = "matrix") =>
        /\ Len(indices) = rows * cols
        /\ \A k \in 0..(rows * cols - 1) :
              indices[k + 1] = (k % rows) * cols + (k \div rows)

(***************************************************************************)
(* C7: for every frame f below total_frames the number of cells in the     *)
(* mask used for f differs from min(round((f+1)*R*C/total_frames), R*C)    *)
(* by at most 2.                                                           *)
(***************************************************************************)
C7_CardinalityNearTarget ==
    \A f \in Revealed :
        \E n \in 0..(rows * cols) :
            /\ IsRounded(n, (f + 1) * rows * cols, TotalFrames)
            /\ Abs(Cardinality(frames[f].mask) - n) <= 2

(***************************************************************************)
(* C8: with style sequential (line) the mask of frame f is exactly the     *)
(* first min(round((f+1)*R*C/total_frames), R*C) cell linear indices.      *)
(***************************************************************************)
C8_SequentialPrefix ==
    style = "line" =>
        \A f \in Revealed :
            \E n \in 0..(rows * cols) :
                /\ IsRounded(n, (f + 1) * rows * cols, TotalFrames)
                /\ CellsOf(f) = 0..(n - 1)


(***************************************************************************)
(* Composing a frame: the rendering part of create_ascii_frame.            *)
(***************************************************************************)
\* the color the image gives the cell at string position p
ColorOf(p) == <<p, p, p>>

\* the color list of pixels_to_ascii_with_color: one entry per character of
\* the string, None for a newline
pixels_to_ascii_with_color(c, r) ==
    [i \in 1..StrLen(c, r) |-> IF IsNewline(i - 1, c) THEN None ELSE ColorOf(i - 1)]

\* create_ascii_frame.color_mapping: string position -> count of the
\* non-newline characters before it
color_mapping(c, r) == [p \in CellPositions(c, r) |-> CellOf(p, c)]

\* text_color with the USE_COLOR test left out: color data is used whenever
\* it is passed in
text_color_any_data(p, c, r, use, cd) ==
    IF cd.present /\ p \in DOMAIN color_mapping(c, r)
                  /\ color_mapping(c, r)[p] < Len(cd.colors)
    THEN cd.colors[color_mapping(c, r)[p] + 1]
    ELSE TEXT_COLOR

\* the color a visible character at string position p is given
text_color(p, c, r, use, cd) ==
    IF use /\ cd.present
    THEN IF p \in DOMAIN color_mapping(c, r)
         THEN LET color_idx == color_mapping(c, r)[p]
              IN  IF 0 <= color_idx /\ color_idx < Len(cd.colors)
                  THEN cd.colors[color_idx + 1]
                  ELSE TEXT_COLOR
         ELSE TEXT_COLOR
    ELSE TEXT_COLOR

\* int() of the rational num/den, den > 0
Trunc(num, den) == IF num >= 0 THEN num \div den ELSE -((-num) \div den)

\* the bounds test of the atlas renderer for the cell at string position p
\* with a glyph g: the glyph image, margins included, lies inside the canvas
AtlasInBounds(p, c, r, g) ==
    LET col == p % (c + 1)
        line_num == p \div (c + 1)
        target_x == Trunc((2 * col + 1) * IMG_WIDTH - g.w * c, 2 * c)
        target_y == Trunc((2 * line_num + 1) * IMG_HEIGHT - g.h * r, 2 * r)
        roi_height == g.h + g.baseline + GlyphMargin
        roi_width == g.w + GlyphMargin
    IN  /\ target_y >= 0 /\ target_x >= 0
        /\ target_y + roi_height <= IMG_HEIGHT
        /\ target_x + roi_width <= IMG_WIDTH

\* the colors of the visible characters
Colors(mask, c, r, use, cd) ==
    [p \in (mask \cap CellPositions(c, r)) |-> text_color(p, c, r, use, cd)]

Restrict(f, S) == [p \in S |-> f[p]]

GlyphSizes(c, r) ==
    [w : {SmallGlyph, IMG_WIDTH \div c}, h : {SmallGlyph, IMG_HEIGHT \div r},
     baseline : {0, SmallGlyph}]

InitCompose ==
    /\ style = "line" /\ fps = 1 /\ duration = 1
    /\ indices = << >> /\ batch_idx = 0 /\ batch_size = BaseBatchSize
    /\ end_idx = 0 /\ current_batch_size = 0 /\ frame_index = 0
    /\ frames = << >>
    /\ MASK_CACHE = << >> /\ storedTotal = << >> /\ MEMORY_PRESSURE = FALSE
    /\ lastCall = NoCall /\ lookupResult = NoMask /\ nops = 0
    /\ pc = "compose"
    /\ rows \in 1..MaxComposeRows
    /\ cols \in 1..MaxComposeCols
    /\ char_mask \in SUBSET CellPositions(cols, rows)
    /\ USE_COLOR \in BOOLEAN
    /\ color_data \in {[present |-> FALSE, colors |-> << >>],
                       [present |-> TRUE, colors |-> pixels_to_ascii_with_color(cols, rows)]}
    /\ OPTIMIZATION_LEVEL \in 0..3
    /\ PRERENDER_AVAILABLE \in BOOLEAN
    /\ glyph \in GlyphSizes(cols, rows)
    /\ canvas = << >>
    /\ composed = "no"
    /\ extraIdle

ComposeUnchanged ==
    UNCHANGED <<MASK_CACHE, storedTotal, MEMORY_PRESSURE, lastCall, lookupResult, nops,
                pc, driverVars, USE_COLOR, OPTIMIZATION_LEVEL, PRERENDER_AVAILABLE,
                char_mask, color_data, glyph, extraVars>>

\* level 0: PIL draws every visible character with the color it is given
ComposeLevel0 ==
    /\ pc = "compose" /\ composed = "no"
    /\ OPTIMIZATION_LEVEL = 0
    /\ canvas' = Colors(char_mask, cols, rows, USE_COLOR, color_data)
    /\ composed' = "done"
    /\ ComposeUnchanged

\* level 3: the atlas renderer.  A color of None cannot be subscripted and
\* the call fails; a glyph image that does not fit the canvas is not blended
\* and the character is left out.
ComposeLevel3 ==
    /\ pc = "compose" /\ composed = "no"
    /\ OPTIMIZATION_LEVEL = 3 /\ PRERENDER_AVAILABLE
    /\ LET cs == Colors(char_mask, cols, rows, USE_COLOR, color_data)
       IN  IF \E p \in DOMAIN cs : cs[p] = None
           THEN canvas' = << >> /\ composed' = "error"
           ELSE /\ canvas' = Restrict(cs, {p \in DOMAIN cs :
                                              AtlasInBounds(p, cols, rows, glyph)})
                /\ composed' = "done"
    /\ ComposeUnchanged

\* level 1: cv2.putText per visible character.  What putText does with a
\* color of None is the library's: it raises or draws.
ComposeLevel1 ==
    /\ pc = "compose" /\ composed = "no"
    /\ OPTIMIZATION_LEVEL = 1
    /\ LET cs == Colors(char_mask, cols, rows, USE_COLOR, color_data)
       IN  \/ canvas' = cs /\ composed' = "done"
           \/ /\ \E p \in DOMAIN cs : cs[p] = None
              /\ canvas' = << >> /\ composed' = "error"
    /\ ComposeUnchanged

\* level 2 (and level 3 without the atlas module): line by line; a
\* character whose color is None is passed over
ComposeLevel2 ==
    /\ pc = "compose" /\ composed = "no"
    /\ \/ OPTIMIZATION_LEVEL = 2
       \/ OPTIMIZATION_LEVEL = 3 /\ ~PRERENDER_AVAILABLE
    /\ LET cs == Colors(char_mask, cols, rows, USE_COLOR, color_data)
       IN  canvas' = Restrict(cs, {p \in DOMAIN cs : cs[p] # None})
    /\ composed' = "done"
    /\ ComposeUnchanged

NextCompose ==
    \/ ComposeLevel0
    \/ ComposeLevel1
    \/ ComposeLevel2
    \/ ComposeLevel3

SpecCompose == InitCompose /\ [][NextCompose]_vars

\* C9: with color enabled and color data present, every character drawn in
\* a composed frame has the color the image stores for its own cell, never
\* another cell's color and never a missing one.
C9_RevealedCellHasOwnColor ==
    (composed = "done" /\ USE_COLOR /\ color_data.present)
        => \A p \in DOMAIN canvas : canvas[p] = ColorOf(p)

\* C10: under every rendering strategy a composed frame draws a cell if and
\* only if the cell is in the frame's mask.
C10_DrawnIffInMask ==
    composed = "done" => DOMAIN canvas = char_mask


\* C11: with USE_COLOR off, every cell drawn in a composed frame has the
\* default foreground color, whether or not color data is passed in, under
\* every rendering strategy.
C11_DefaultColorWhenColorOff ==
    (composed = "done" /\ ~USE_COLOR)
        => \A p \in DOMAIN canvas : canvas[p] = TEXT_COLOR

\* a frame composed with color off although color data was passed in, with
\* a drawn cell of the second row
C11_Witness ==
    /\ composed = "done" /\ ~USE_COLOR /\ color_data.present
    /\ \E p \in DOMAIN canvas : p > cols /\ canvas[p] = TEXT_COLOR

\* C12: for every frame of a run the mask used with the mask cache
\* consulted equals the mask built fresh for that frame with no cache.
C12_CacheNotCorrectnessDependency ==
    \A f \in DOMAIN frames :
        f <= TotalFrames =>
            frames[f].mask = BuildMask(indices,
                                       CharsToDisplay(f, TotalFrames, TotalChars(cols, rows)),
                                       cols, rows)

(***************************************************************************)
(* SpecTwin: two runs of the same animation side by side.  The first is    *)
(* the run of Spec, with memory pressure signalled at the batch boundaries *)
(* where the timing check fires; the second (twinCache, twinFrames) gets   *)
(* the same create_ascii_frame calls and no signal.  The batch sizes of    *)
(* the second run play no part in its masks and are not kept.              *)
(***************************************************************************)
runConfig == <<style, rows, cols, fps, duration, composeVars>>

InitTwin ==
    /\ style = "line"
    /\ rows \in (MaxRows - 1)..MaxRows
    /\ cols \in (MaxCols - 1)..MaxCols
    /\ fps \in (MaxFps - 2)..MaxFps
    /\ duration \in 1..MaxTwinDuration
    /\ indices = << >>
    /\ MASK_CACHE = << >>
    /\ MEMORY_PRESSURE = FALSE
    /\ storedTotal = << >>
    /\ lastCall = NoCall
    /\ lookupResult = NoMask
    /\ nops = 0
    /\ pc = "start"
    /\ batch_idx = 0
    /\ batch_size = BaseBatchSize
    /\ end_idx = 0
    /\ current_batch_size = 0
    /\ frame_index = 0
    /\ frames = << >>
    /\ composeIdle
    /\ extraIdle

\* the dummy frame of both runs
TwinStart ==
    /\ pc = "start"
    /\ indices' \in IndicesFor(style, cols, rows)
    /\ \E o \in FrameOutcomes(0, TotalFrames, indices', MASK_CACHE, cols, rows) :
          MASK_CACHE' = o.cache
    /\ \E t \in FrameOutcomes(0, TotalFrames, indices', twinCache, cols, rows) :
          twinCache' = t.cache
    /\ batch_size' = BaseBatchSize
    /\ batch_idx' = 0
    /\ pc' = "batch"
    /\ UNCHANGED <<runConfig, MEMORY_PRESSURE, cacheHistory, end_idx, current_batch_size,
                   frame_index, frames, twinFrames, image, glyphVars, aliasVars, randomVars, walkVars>>

\* one create_ascii_frame call in both runs
TwinRenderFrame ==
    /\ pc = "frame"
    /\ frame_index < end_idx
    /\ \E o \in FrameOutcomes(frame_index, TotalFrames, indices, MASK_CACHE, cols, rows) :
          /\ MASK_CACHE' = o.cache
          /\ frames' = [f \in DOMAIN frames \cup {frame_index} |->
                          IF f = frame_index THEN Frame(o) ELSE frames[f]]
    /\ \E t \in FrameOutcomes(frame_index, TotalFrames, indices, twinCache, cols, rows) :
          /\ twinCache' = t.cache
          /\ twinFrames' = [f \in DOMAIN twinFrames \cup {frame_index} |->
                              IF f = frame_index THEN Frame(t) ELSE twinFrames[f]]
    /\ frame_index' = frame_index + 1
    /\ UNCHANGED <<runConfig, indices, MEMORY_PRESSURE, cacheHistory, pc, batch_idx,
                   batch_size, end_idx, current_batch_size, image, glyphVars, aliasVars, randomVars, walkVars>>

\* the final frame of both runs
TwinFinalFrame ==
    /\ pc = "batch"
    /\ batch_idx >= TotalFrames
    /\ \E o \in FrameOutcomes(TotalFrames, TotalFrames, indices, MASK_CACHE, cols, rows) :
          /\ MASK_CACHE' = o.cache
          /\ frames' = [f \in DOMAIN frames \cup {TotalFrames} |->
                          IF f = TotalFrames THEN Frame(o) ELSE frames[f]]
    /\ \E t \in FrameOutcomes(TotalFrames, TotalFrames, indices, twinCache, cols, rows) :
          /\ twinCache' = t.cache
          /\ twinFrames' = [f \in DOMAIN twinFrames \cup {TotalFrames} |->
                              IF f = TotalFrames THEN Frame(t) ELSE twinFrames[f]]
    /\ pc' = "hold"
    /\ UNCHANGED <<runConfig, indices, MEMORY_PRESSURE, cacheHistory, batch_idx,
                   batch_size, end_idx, current_batch_size, frame_index, image, glyphVars, aliasVars, randomVars, walkVars>>

NextTwin ==
    \/ TwinStart
    \/ BatchBegin
    \/ TwinRenderFrame
    \/ \E slow \in BOOLEAN : BatchEnd(slow)
    \/ TwinFinalFrame

SpecTwin == InitTwin /\ [][NextTwin]_vars

\* C13: two runs of the same animation that differ only in whether and at
\* which batch boundaries memory pressure is signalled use the same mask for
\* every frame.
C13_PressureIsAdvisory ==
    \A f \in DOMAIN frames \cap DOMAIN twinFrames : frames[f].mask = twinFrames[f].mask

(***************************************************************************)
(* SpecMain: main processing several images in one process, one run of     *)
(* generate_frames per image.  Images are resized to one size, so every    *)
(* run has the same grid shape; the module globals and the attributes of   *)
(* create_ascii_frame live on from one run to the next.                    *)
(***************************************************************************)
InitMain ==
    /\ Init
    /\ fps * duration <= MaxMainFrames

\* main's loop: process_single_image returns and is called for the next file
NextImage ==
    /\ pc = "done"
    /\ image + 1 < MaxImages
    /\ image' = image + 1
    /\ frames' = << >>
    /\ pc' = "start"
    /\ UNCHANGED <<runConfig, twinCache, twinFrames, glyphVars, aliasVars, randomVars, walkVars, indices, MASK_CACHE,
                   MEMORY_PRESSURE, cacheHistory, batch_idx, batch_size, end_idx, current_batch_size,
                   frame_index>>

NextMain ==
    \/ Next
    \/ NextImage

SpecMain == InitMain /\ [][NextMain]_vars

\* C14: the shared caches are cleared between the runs of one process: at
\* the start of each run the mask cache is empty, so no lookup of a later
\* run returns a mask stored by an earlier one.
C14_CacheEmptyAtRunStart ==
    pc = "start" => MASK_CACHE = << >>

(***************************************************************************)
(* SpecDriver: the runs of Spec on the one-cell grid, where only the frame *)
(* loop of generate_frames is left to vary.                                *)
(***************************************************************************)
InitDriver ==
    /\ Init
    /\ style = "line" /\ rows = 1 /\ cols = 1

SpecDriver == InitDriver /\ [][Next]_vars

InitConfig ==
    /\ style \in Styles
    /\ rows \in 1..MaxRows
    /\ cols \in 1..MaxCols
    /\ style \in {"ants", "random"} => rows * cols <= MaxShuffle
    /\ fps \in 0..MaxConfigFps
    /\ duration \in 0..MaxConfigDuration
    /\ indices = << >>
    /\ MASK_CACHE = << >>
    /\ MEMORY_PRESSURE = FALSE
    /\ storedTotal = << >>
    /\ lastCall = NoCall
    /\ lookupResult = NoMask
    /\ nops = 0
    /\ pc = "start"
    /\ batch_idx = 0
    /\ batch_size = BaseBatchSize
    /\ end_idx = 0
    /\ current_batch_size = 0
    /\ frame_index = 0
    /\ frames = << >>
    /\ composeIdle
    /\ extraIdle

SpecConfig == InitConfig /\ [][Next]_vars

\* C16: with an invalid configuration (total_frames <= 0) the run fails at
\* setup: no reveal order is computed, no frame is produced and no cache
\* entry is stored.
C16_InvalidConfigFailsFast ==
    TotalFrames <= 0 =>
        /\ indices = << >>
        /\ frames = << >>
        /\ MASK_CACHE = << >>

(***************************************************************************)
(* SpecGlyph: the glyph cache of optimize_ascii_frame_generation.  Symbols *)
(* are numbered; the grid of a call holds the symbols 1..k, symbol 1 the   *)
(* most frequent and each next one less frequent, and the visible cells    *)
(* show the symbols 1..m.                                                  *)
(***************************************************************************)
\* most_common: the symbols of the GLYPH_TOP_N highest frequencies of the grid
MostCommon(k) == 1..Min(GLYPH_TOP_N, k)

\* the glyph cache after one optimize_ascii_frame_generation call: pruned
\* when the flag is set and it holds more than 50 symbols, then every
\* visible symbol it lacks is rendered and added
GlyphCacheAfter(cache, pressure, k, m) ==
    LET pruned == IF pressure /\ Cardinality(cache) > GLYPH_PRUNE_ABOVE
                  THEN cache \cap MostCommon(k)
                  ELSE cache
    IN  pruned \cup (1..m)

InitGlyph ==
    /\ driverIdle
    /\ composeIdle
    /\ twinCache = << >> /\ twinFrames = << >> /\ image = 0
    /\ heap = << >> /\ maskObj = << >> /\ held = << >>
    /\ randomIdle /\ walkIdle
    /\ MASK_CACHE = << >> /\ storedTotal = << >> /\ MEMORY_PRESSURE = FALSE
    /\ lastCall = NoCall /\ lookupResult = NoMask /\ nops = 0
    /\ pc = "glyph"
    /\ CHAR_CACHE = {}
    /\ PRERENDER_MEMORY_PRESSURE = FALSE
    /\ glyphPhase = "idle"

GlyphUnchanged ==
    UNCHANGED <<driverVars, composeVars, twinCache, twinFrames, image, aliasVars, randomVars,
                walkVars, MASK_CACHE,
                storedTotal, MEMORY_PRESSURE, lastCall, lookupResult, nops>>

\* optimize_ascii_frame_generation on a grid of k symbols, m of them visible
ComposeWithAtlas(k, m) ==
    /\ pc = "glyph"
    /\ CHAR_CACHE' = GlyphCacheAfter(CHAR_CACHE, PRERENDER_MEMORY_PRESSURE, k, m)
    /\ PRERENDER_MEMORY_PRESSURE' =
          IF PRERENDER_MEMORY_PRESSURE /\ Cardinality(CHAR_CACHE) > GLYPH_PRUNE_ABOVE
          THEN FALSE ELSE PRERENDER_MEMORY_PRESSURE
    /\ glyphPhase' = IF glyphPhase = "idle" THEN "idle" ELSE "composed"
    /\ GlyphUnchanged

\* prerender_optimizer.signal_memory_pressure: the flag, and the whole cache
\* cleared when the accelerator reports more than 6 GB in use
SignalGlyphPressure ==
    /\ pc = "glyph"
    /\ PRERENDER_MEMORY_PRESSURE' = TRUE
    /\ CHAR_CACHE' \in {CHAR_CACHE, {}}
    /\ glyphPhase' = "signalled"
    /\ GlyphUnchanged

NextGlyph ==
    \/ \E k \in 1..MaxSymbols : \E m \in {0, 1, k} : ComposeWithAtlas(k, m)
    \/ SignalGlyphPressure

SpecGlyph == InitGlyph /\ [][NextGlyph]_vars

\* C17: once memory pressure has been signalled to the glyph cache, no
\* later compose call leaves it holding more than 40 symbols.
C17_GlyphCacheWithinTopN ==
    glyphPhase = "composed" => Cardinality(CHAR_CACHE) <= GLYPH_TOP_N

(***************************************************************************)
(* Claims on the pressure calls of the mask cache (SpecCache).             *)
(***************************************************************************)
\* the keys at the even positions (0, 2, 4, ...) of the sorted key list
EvenRanked(cache) ==
    {k \in Keys(cache) : Cardinality({j \in Keys(cache) : j < k}) % 2 = 0}

\* the step is a signal_memory_pressure call
IsSignalStep == lastCall'.op = "signal" /\ nops' = nops + 1

\* the step is a reset_memory_pressure call
IsResetStep == lastCall'.op = "reset" /\ nops' = nops + 1

\* C19: signal_pressure() on a cache of n entries, for every n from 0 to the
\* capacity, leaves exactly the entries at the even positions of the sorted
\* key list, masks untouched, and sets the pressure flag.
C19_SignalHalvesAnyCache ==
    [][IsSignalStep =>
          /\ MEMORY_PRESSURE'
          /\ Keys(MASK_CACHE') = EvenRanked(MASK_CACHE)
          /\ \A k \in Keys(MASK_CACHE') : MaskAt(MASK_CACHE', k) = MaskAt(MASK_CACHE, k)]_vars

\* C19 amended: signal_pressure() sets the pressure flag; on a cache of more
\* than half the capacity (more than 10 entries) it leaves exactly the
\* entries at the even positions of the sorted key list; on a cache of 10
\* entries or fewer it leaves the cache as it is.
C19_SignalHalvesAboveHalf ==
    [][IsSignalStep =>
          /\ MEMORY_PRESSURE'
          /\ Keys(MASK_CACHE') =
                IF 2 * Len(MASK_CACHE) >= MASK_CACHE_SIZE_LIMIT + 2
                THEN EvenRanked(MASK_CACHE)
                ELSE Keys(MASK_CACHE)
          /\ Len(MASK_CACHE') = Cardinality(Keys(MASK_CACHE'))
          /\ \A k \in Keys(MASK_CACHE') : MaskAt(MASK_CACHE', k) = MaskAt(MASK_CACHE, k)]_vars

\* a signal that found more than half the capacity cached and halved it
C19_Witness ==
    /\ lastCall.op = "signal"
    /\ 2 * lastCall.lenBefore > MASK_CACHE_SIZE_LIMIT
    /\ 2 * Len(MASK_CACHE) = lastCall.lenBefore + (lastCall.lenBefore % 2)
    /\ MEMORY_PRESSURE

\* C20: reset_pressure() sets the pressure flag to false and leaves the
\* cached frame indices and every cached mask unchanged.
C20_ResetKeepsCache ==
    [][IsResetStep => (~MEMORY_PRESSURE' /\ MASK_CACHE' = MASK_CACHE)]_vars

\* a reset on a cache that holds entries
C20_Witness ==
    /\ lastCall.op = "reset"
    /\ lastCall.lenBefore > 0
    /\ Len(MASK_CACHE) = lastCall.lenBefore
    /\ ~MEMORY_PRESSURE


(***************************************************************************)
(* SpecAlias: the mask cache as a dict of numpy arrays.  An array is an    *)
(* object of the heap, and two names for one object see each other's       *)
(* writes.  MASK_CACHE keeps, as in the other specifications, the contents *)
(* each cached array had when it was stored; maskObj says which object the *)
(* dict holds for each frame index, and held lists the arrays the caller   *)
(* passed to cache_mask or got from get_cached_mask, which it may write    *)
(* to at any time.                                                         *)
(***************************************************************************)
\* frame indices passed to the calls: one a full cache holds, one it lacks,
\* and the last one
AliasFrames == {MASK_CACHE_SIZE_LIMIT - 1, MASK_CACHE_SIZE_LIMIT, MaxIndex}

\* the objects the caller holds
HeldObjects == {held[i].obj : i \in DOMAIN held}

\* what a caller writes into an array it holds: a cleared mask, or one more cell
Mutations(mask) == {{}, mask \cup {MaxIndex + 1}} \ {mask}

\* cache_mask caching the caller's array itself
StoredObjectAliased(h, arg) == arg

\* MASK_CACHE[frame_index] = mask.copy(): the object the dict gets is a new one
StoredObject(h, arg) == Len(h) + 1

\* MASK_CACHE[closest_frame].copy(): the object the caller gets is a new one
ReturnedObject(h, cached) == Len(h) + 1

\* whether cache_mask reached its last line
Stores(cache, f, T) ==
    IF Len(cache) >= MASK_CACHE_SIZE_LIMIT
    THEN f \notin Keys(cache) /\ f \in Keys(cache_mask(cache, f, {}, T))
    ELSE TRUE

InitAlias ==
    /\ driverIdle
    /\ composeIdle
    /\ twinCache = << >> /\ twinFrames = << >> /\ image = 0
    /\ CHAR_CACHE = {} /\ PRERENDER_MEMORY_PRESSURE = FALSE /\ glyphPhase = "idle"
    /\ randomIdle /\ walkIdle
    /\ pc = "alias"
    /\ \E n \in {0, MASK_CACHE_SIZE_LIMIT} :
          /\ MASK_CACHE = Warm(n, 1, MaxIndex)
          /\ storedTotal = [k \in Keys(MASK_CACHE) |-> MaxIndex]
    /\ heap = [i \in DOMAIN MASK_CACHE |-> MASK_CACHE[i].mask]
    /\ maskObj = [k \in Keys(MASK_CACHE) |->
                    CHOOSE i \in DOMAIN MASK_CACHE : MASK_CACHE[i].frame = k]
    /\ held = << >>
    /\ MEMORY_PRESSURE = FALSE
    /\ lastCall = NoCall
    /\ lookupResult = NoMask
    /\ nops = 0

AliasUnchanged ==
    UNCHANGED <<driverVars, composeVars, twinCache, twinFrames, image, glyphVars,
                randomVars, walkVars, MEMORY_PRESSURE>>

\* mm.cache_mask(f, arr, T) where arr is an array the caller holds already
\* (arg in HeldObjects) or one it has just made (arg = 0)
AliasStore(f, T, arg) ==
    /\ nops < MaxAliasOps
    /\ \E stores \in {Stores(MASK_CACHE, f, T)} :
       \E h \in {IF arg = 0 THEN Append(heap, MaskArg(f)) ELSE heap} :
       \E a \in {IF arg = 0 THEN Len(h) ELSE arg} :
          /\ MASK_CACHE' = cache_mask(MASK_CACHE, f, h[a], T)
          /\ heap' = IF stores THEN Append(h, h[a]) ELSE h
          /\ maskObj' = [k \in Keys(MASK_CACHE') |->
                           IF k = f /\ stores THEN StoredObject(h, a) ELSE maskObj[k]]
          /\ held' = IF arg = 0
                     THEN Append(held, [obj |-> a, frame |-> f, from |-> "store",
                                        kept |-> stores, mutated |-> FALSE])
                     ELSE held
          /\ storedTotal' = [k \in Keys(MASK_CACHE') |->
                               IF k = f /\ stores THEN T ELSE storedTotal[k]]
    /\ lastCall' = Called("store", f, T)
    /\ lookupResult' = NoMask
    /\ nops' = nops + 1
    /\ AliasUnchanged

\* arr = mm.get_cached_mask(f, T)
AliasLookup(f, T) ==
    /\ nops < MaxAliasOps
    /\ \E r \in get_cached_mask(MASK_CACHE, f, T) :
          IF r.found
          THEN LET cached == maskObj[r.frame]
               IN  /\ heap' = Append(heap, heap[cached])
                   /\ held' = Append(held, [obj |-> ReturnedObject(heap, cached),
                                            frame |-> r.frame, from |-> "lookup",
                                            kept |-> FALSE, mutated |-> FALSE])
                   /\ lookupResult' = [found |-> TRUE, frame |-> r.frame,
                                       mask |-> heap[cached]]
          ELSE /\ lookupResult' = NoMask
               /\ UNCHANGED <<heap, held>>
    /\ lastCall' = Called("lookup", f, T)
    /\ nops' = nops + 1
    /\ UNCHANGED <<MASK_CACHE, storedTotal, maskObj>>
    /\ AliasUnchanged

\* the caller writes to an array it holds: arr[...] = ...
Mutate(i, mask) ==
    /\ nops < MaxAliasOps
    /\ i \in DOMAIN held
    /\ mask \in Mutations(heap[held[i].obj])
    /\ heap' = [heap EXCEPT ![held[i].obj] = mask]
    /\ held' = [held EXCEPT ![i].mutated = TRUE]
    /\ lastCall' = Called("mutate", held[i].frame, 0)
    /\ nops' = nops + 1
    /\ UNCHANGED <<MASK_CACHE, storedTotal, maskObj, lookupResult>>
    /\ AliasUnchanged

NextAlias ==
    \/ \E f \in AliasFrames, T \in Totals, arg \in {0} \cup HeldObjects : AliasStore(f, T, arg)
    \/ \E f \in AliasFrames, T \in Totals : AliasLookup(f, T)
    \/ \E i \in DOMAIN held : \E mask \in Mutations(heap[held[i].obj]) : Mutate(i, mask)

SpecAlias == InitAlias /\ [][NextAlias]_vars

\* the arrays of the dict hold what was stored
CacheHoldsWhatWasStored ==
    \A k \in Keys(MASK_CACHE) : heap[maskObj[k]] = MaskAt(MASK_CACHE, k)

\* a lookup that hit returned what was stored for the frame it chose
LookupReturnedWhatWasStored ==
    (lastCall.op = "lookup" /\ lookupResult.found)
        => lookupResult.mask = MaskAt(MASK_CACHE, lookupResult.frame)

IsMutateStep == lastCall'.op = "mutate" /\ nops' = nops + 1

\* C18: masks are never aliased with the cache: when the caller writes to an
\* array it passed to cache_mask or got from get_cached_mask, every array
\* held in the cache keeps its contents, so the cache always holds what was
\* stored and every later lookup that hits returns what was stored.
C18_MasksNeverAliased ==
    /\ [](CacheHoldsWhatWasStored /\ LookupReturnedWhatWasStored)
    /\ [][IsMutateStep =>
            /\ DOMAIN maskObj' = DOMAIN maskObj
            /\ \A k \in DOMAIN maskObj : heap'[maskObj'[k]] = heap[maskObj[k]]]_vars

\* an array was stored and kept, the caller then wrote to it, and a later
\* lookup returned that frame's mask, which differs from the caller's array
C18_Witness ==
    /\ lastCall.op = "lookup"
    /\ lookupResult.found
    /\ \E i \in DOMAIN held :
          /\ held[i].from = "store" /\ held[i].kept /\ held[i].mutated
          /\ held[i].frame = lookupResult.frame
          /\ heap[held[i].obj] # lookupResult.mask

(***************************************************************************)
(* The generator of module random.  Its state is one value; random.seed(a) *)
(* sets it to a value that depends on a alone, and every draw moves it on  *)
(* and returns a number computed from the new state.  The real generator   *)
(* has a far larger state; what the model keeps is that it is a            *)
(* deterministic function of its state, and that the state is shared by    *)
(* the whole process.                                                      *)
(***************************************************************************)
\* seed=None
NoSeed == -1

\* random.seed(a)
Seeded(a) == a % RngModulus

\* the state after one draw
Advance(s) == (5 * s + 3) % RngModulus

\* the number a draw below n returns, s being the state after the draw
Drawn(s, n) == s % n

\* random.shuffle(x): for i in reversed(range(1, len(x))): j = randbelow(i + 1);
\* x[i], x[j] = x[j], x[i].  Called with i = len(x) - 1.
RECURSIVE Shuffle(_, _, _)
Shuffle(x, i, s) ==
    IF i < 1 THEN [list |-> x, rng |-> s]
    ELSE Shuffle([x EXCEPT ![i + 1] = x[Drawn(Advance(s), i + 1) + 1],
                           ![Drawn(Advance(s), i + 1) + 1] = x[i + 1]],
                 i - 1, Advance(s))

\* create_random_indices that never seeds the generator
SeededStateIgnored(s, seed) == s

\* if seed is not None: random.seed(seed)
SeededState(s, seed) == IF seed # NoSeed THEN Seeded(seed) ELSE s

\* create_random_indices(total_chars, seed) run on generator state s: the list
\* it returns and the state it leaves
RandomIndicesRun(n, seed, s) ==
    Shuffle(LineIndices(n), n - 1, SeededState(s, seed))

\* the elements of a set of numbers in increasing order
Ascending(S) ==
    [k \in 1..Cardinality(S) |->
        CHOOSE p \in S : Cardinality({q \in S : q < p}) = k - 1]

\* lines 303-307: the ant standing on pos = <<x, y>> appends the string
\* position of its cell unless it was appended before
AntDrop(c, r, pos, idxs, vis) ==
    LET idx == pos[2] * (c + 1) + pos[1]
    IN  IF /\ 0 <= pos[1] /\ pos[1] < c /\ 0 <= pos[2] /\ pos[2] < r
           /\ idx < StrLen(c, r) /\ ~IsNewline(idx, c) /\ idx \notin vis
        THEN [indices |-> Append(idxs, idx), visited |-> vis \cup {idx}, appended |-> idx]
        ELSE [indices |-> idxs, visited |-> vis, appended |-> -1]

\* lines 310-314: the ant moves by <<dx, dy>>, clamped to the grid
AntMove(c, r, pos, dx, dy) ==
    <<Max(0, Min(c - 1, pos[1] + dx)), Max(0, Min(r - 1, pos[2] + dy))>>

\* lines 295-299: n ants placed by random.randint draws
RECURSIVE PlaceAnts(_, _, _, _, _)
PlaceAnts(c, r, n, placed, s) ==
    IF n = 0 THEN [ants |-> placed, rng |-> s]
    ELSE PlaceAnts(c, r, n - 1,
                   Append(placed, <<Drawn(Advance(s), c), Drawn(Advance(Advance(s)), r)>>),
                   Advance(Advance(s)))

\* lines 317-321: the unvisited positions, shuffled, are appended and the list
\* is cut to the number of characters
FinishWalk(c, r, idxs, vis, s) ==
    LET remaining == Ascending(CellPositions(c, r) \ vis)
        sh == Shuffle(remaining, Len(remaining) - 1, s)
    IN  [list |-> SubSeq(idxs \o sh.list, 1, TotalChars(c, r)), rng |-> sh.rng]

(***************************************************************************)
(* create_ants_indices as a walk of single turns.  A turn is one pass of   *)
(* the inner loop: the ant whose turn it is drops the index of its cell    *)
(* and moves by <<dx, dy>>.  Where the ants start and how they move is     *)
(* given by the caller of these actions.                                   *)
(***************************************************************************)
\* lines 290-299: the locals after the ants are placed on the cells in placed
BeginWalk(c, r, placed) ==
    /\ walkAnt = 0
    /\ ants' = placed
    /\ walkIndices' = << >>
    /\ visited' = {}
    /\ walkStep' = 0
    /\ walkAnt' = 1
    /\ walkGrid' = <<c, r>>
    /\ walkLast' = NoAppend

\* steps = cols * rows * 2
WalkSteps == 2 * walkGrid[1] * walkGrid[2]

\* lines 303-314: one turn
Turn(dx, dy) ==
    /\ walkAnt >= 1
    /\ walkStep < WalkSteps
    /\ \E d \in {AntDrop(walkGrid[1], walkGrid[2], ants[walkAnt], walkIndices, visited)} :
          /\ walkIndices' = d.indices
          /\ visited' = d.visited
          /\ walkLast' = [ant |-> walkAnt, at |-> ants[walkAnt], appended |-> d.appended]
    /\ ants' = [ants EXCEPT ![walkAnt] = AntMove(walkGrid[1], walkGrid[2], ants[walkAnt], dx, dy)]
    /\ walkAnt' = IF walkAnt = Len(ants) THEN 1 ELSE walkAnt + 1
    /\ walkStep' = IF walkAnt = Len(ants) THEN walkStep + 1 ELSE walkStep
    /\ UNCHANGED walkGrid

\* the function returns: its locals are gone
EndWalk ==
    /\ walkAnt >= 1
    /\ walkStep = WalkSteps
    /\ ants' = << >> /\ walkIndices' = << >> /\ visited' = {}
    /\ walkStep' = 0 /\ walkAnt' = 0 /\ walkGrid' = <<0, 0>> /\ walkLast' = NoAppend

(***************************************************************************)
(* SpecRandom: a process that calls the two random sequencers and uses the *)
(* generator for other things between the calls.  The generator starts in  *)
(* any state.  The first seeded call the process makes is remembered, and  *)
(* later calls with the same arguments are compared with it.               *)
(***************************************************************************)
Seeds == {NoSeed} \cup 0..MaxSeed

RandomUnchanged ==
    UNCHANGED <<driverVars, composeVars, twinCache, twinFrames, image, glyphVars,
                aliasVars, MASK_CACHE, storedTotal, MEMORY_PRESSURE,
                lastCall, lookupResult, nops>>

InitRandom ==
    /\ driverIdle
    /\ composeIdle
    /\ twinCache = << >> /\ twinFrames = << >> /\ image = 0
    /\ CHAR_CACHE = {} /\ PRERENDER_MEMORY_PRESSURE = FALSE /\ glyphPhase = "idle"
    /\ heap = << >> /\ maskObj = << >> /\ held = << >>
    /\ walkIdle
    /\ MASK_CACHE = << >> /\ storedTotal = << >> /\ MEMORY_PRESSURE = FALSE
    /\ lastCall = NoCall /\ lookupResult = NoMask /\ nops = 0
    /\ pc = "random"
    /\ rng \in 0..(RngModulus - 1)
    /\ seqCall = NoSeqCall
    /\ seqFirst = NoFirst

SameCall(a, b) == a.fn = b.fn /\ a.arg = b.arg /\ a.seed = b.seed

\* the remembered call after call is made with the generator in state before
FirstStarted(first, call, before) ==
    IF call.seed = NoSeed THEN first
    ELSE IF first.fn = "none"
    THEN [fn |-> call.fn, arg |-> call.arg, seed |-> call.seed, result |-> << >>,
          rng |-> before, again |-> FALSE, done |-> FALSE]
    ELSE IF SameCall(call, first)
    THEN [first EXCEPT !.again = @ \/ before # first.rng]
    ELSE first

\* the remembered call after call returns list
FirstReturned(first, call, list) ==
    IF SameCall(call, first) /\ ~first.done
    THEN [first EXCEPT !.result = list, !.done = TRUE]
    ELSE first

\* create_random_indices(n, seed)
CallRandom(n, seed) ==
    /\ walkAnt = 0
    /\ \E run \in {RandomIndicesRun(n, seed, rng)} :
       \E call \in {[fn |-> "random", arg |-> <<n, 0>>, seed |-> seed, result |-> run.list]} :
          /\ seqCall' = call
          /\ seqFirst' = FirstReturned(FirstStarted(seqFirst, call, rng), call, run.list)
          /\ rng' = run.rng
    /\ UNCHANGED walkVars
    /\ RandomUnchanged

\* create_ants_indices(ascii_str, cols, rows) is called: lines 287-299
CallAnts(c, r) ==
    /\ \E p \in {PlaceAnts(c, r, NUM_ANTS, << >>, Seeded(ANTS_SEED))} :
          /\ BeginWalk(c, r, p.ants)
          /\ rng' = p.rng
    /\ seqCall' = [fn |-> "walking", arg |-> <<c, r>>, seed |-> ANTS_SEED, result |-> << >>]
    /\ seqFirst' = FirstStarted(seqFirst, [seqCall' EXCEPT !.fn = "ants"], rng)
    /\ RandomUnchanged

\* one turn of the walk, the move drawn by random.choice([-1, 0, 1]) twice
AntsTurn ==
    /\ Turn(Drawn(Advance(rng), 3) - 1, Drawn(Advance(Advance(rng)), 3) - 1)
    /\ rng' = Advance(Advance(rng))
    /\ UNCHANGED <<seqCall, seqFirst>>
    /\ RandomUnchanged

\* the walk is over: lines 317-323
AntsReturn ==
    /\ \E fin \in {FinishWalk(walkGrid[1], walkGrid[2], walkIndices, visited, rng)} :
          /\ seqCall' = [seqCall EXCEPT !.fn = "ants", !.result = fin.list]
          /\ seqFirst' = FirstReturned(seqFirst, seqCall', fin.list)
          /\ rng' = fin.rng
    /\ EndWalk
    /\ RandomUnchanged

\* any other use of the generator by the process: a draw, or a seeding
OtherUse ==
    /\ walkAnt = 0
    /\ \/ rng' = Advance(rng)
       \/ \E a \in 0..MaxSeed : rng' = Seeded(a)
    /\ UNCHANGED <<seqCall, seqFirst, walkVars>>
    /\ RandomUnchanged

NextRandom ==
    \/ \E n \in 1..MaxShuffle, seed \in Seeds : CallRandom(n, seed)
    \/ \E c \in 1..MaxWalkCols, r \in 1..MaxWalkRows : CallAnts(c, r)
    \/ AntsTurn
    \/ AntsReturn
    \/ OtherUse

SpecRandom == InitRandom /\ [][NextRandom]_vars

\* C21: the ants sequencer called again with the same grid shape, and the
\* random sequencer called again with the same seed and cell count, return
\* the order the first such call returned, whatever the generator was used
\* for in between.
C21_SeededOrdersRepeat ==
    (seqCall.fn \in {"ants", "random"} /\ SameCall(seqCall, seqFirst))
        => seqCall.result = seqFirst.result

\* the random sequencer has been called again with the seed and cell count
\* of the first call, on another generator state, and it is the last call
C21_Witness ==
    /\ seqFirst.fn = "random" /\ seqFirst.arg[1] > 2 /\ seqFirst.again
    /\ SameCall(seqCall, seqFirst)

\* the same for the ants sequencer
C21_AntsRepeated ==
    /\ seqFirst.fn = "ants" /\ seqFirst.arg[1] * seqFirst.arg[2] > 1 /\ seqFirst.again
    /\ SameCall(seqCall, seqFirst)

\* C22: in atlas-based compositing a masked cell whose glyph does not fit
\* the canvas at its target rectangle is still drawn (by the direct draw of
\* that one glyph), and the frame is composed.
C22_OutOfBoundsCellStillDrawn ==
    (composed # "no" /\ OPTIMIZATION_LEVEL = 3 /\ PRERENDER_AVAILABLE
                     /\ ~(USE_COLOR /\ color_data.present))
        => /\ composed = "done"
           /\ \A p \in char_mask :
                 ~AtlasInBounds(p, cols, rows, glyph) => p \in DOMAIN canvas

\* C27: for a fixed grid, mask and color mode the per-line and the atlas
\* strategy draw what the per-character strategy draws: the cells of the mask,
\* each in the color the per-character strategy gives it.
C27_StrategiesDrawTheSame ==
    (composed = "done" /\ OPTIMIZATION_LEVEL \in 1..3)
        => canvas = Colors(char_mask, cols, rows, USE_COLOR, color_data)

(***************************************************************************)
(* Stores on a full mask cache (SpecCache).                                *)
(***************************************************************************)
\* the step is a cache_mask call made on a cache holding capacity entries
IsFullStoreStep ==
    /\ lastCall'.op = "store" /\ nops' = nops + 1
    /\ Len(MASK_CACHE) = MASK_CACHE_SIZE_LIMIT

\* exactly one entry, of the greatest distance to its nearest boundary, is
\* gone, the mask of frame f is in, and the other entries are as they were
EvictedFarthestAndInserted(f, T) ==
    /\ \E k \in Keys(MASK_CACHE) :
          /\ \A j \in Keys(MASK_CACHE) : MinDistance(j, T) <= MinDistance(k, T)
          /\ Keys(MASK_CACHE') = (Keys(MASK_CACHE) \ {k}) \cup {f}
          /\ \A j \in Keys(MASK_CACHE) \ {k, f} :
                MaskAt(MASK_CACHE', j) = MaskAt(MASK_CACHE, j)
    /\ MaskAt(MASK_CACHE', f) = MaskArg(f)
    /\ Len(MASK_CACHE') = MASK_CACHE_SIZE_LIMIT
    /\ Cardinality(Keys(MASK_CACHE')) = MASK_CACHE_SIZE_LIMIT

\* C23 as claimed: on a full cache a store of a frame index that is not a
\* boundary int(i * total_frames / capacity) leaves the cache unchanged, and
\* a store of a boundary evicts exactly one entry of the greatest distance to
\* its nearest boundary and inserts the new mask.
C23_FullStoreEvictsOnBoundary ==
    [][IsFullStoreStep =>
         IF lastCall'.frame \in Boundaries(lastCall'.total)
         THEN EvictedFarthestAndInserted(lastCall'.frame, lastCall'.total)
                 /\ lastCall'.frame \notin Keys(MASK_CACHE)
         ELSE MASK_CACHE' = MASK_CACHE]_vars

\* C23 amended: on a full cache a store of a frame index that is cached
\* already or is not a boundary leaves the cache unchanged, and a store of a
\* boundary that is not cached evicts exactly one entry of the greatest
\* distance to its nearest boundary and inserts the new mask.
C23_FullStoreEvictsOnNewBoundary ==
    [][IsFullStoreStep =>
         IF /\ lastCall'.frame \in Boundaries(lastCall'.total)
            /\ lastCall'.frame \notin Keys(MASK_CACHE)
         THEN EvictedFarthestAndInserted(lastCall'.frame, lastCall'.total)
         ELSE MASK_CACHE' = MASK_CACHE]_vars

\* a store of a boundary on a full cache that lacked it: the frame is in
C23_Witness ==
    /\ lastCall.op = "store" /\ lastCall.lenBefore = MASK_CACHE_SIZE_LIMIT
    /\ ~lastCall.hadKey
    /\ lastCall.frame \in Boundaries(lastCall.total)
    /\ lastCall.frame \in Keys(MASK_CACHE)
    /\ MaskAt(MASK_CACHE, lastCall.frame) = MaskArg(lastCall.frame)

\* C30: a store on a full cache never evicts an entry whose frame index is a
\* boundary for the total_frames of the call (the evicted entry is at a
\* distance above 0 from its nearest boundary), and a store that inserts
\* evicts exactly one entry.
C30_NeverEvictsBoundary ==
    [][IsFullStoreStep =>
         /\ \A k \in Keys(MASK_CACHE) \ Keys(MASK_CACHE') :
               /\ k \notin Boundaries(lastCall'.total)
               /\ MinDistance(k, lastCall'.total) > 0
         /\ (Keys(MASK_CACHE') \ Keys(MASK_CACHE) # {})
               => Cardinality(Keys(MASK_CACHE) \ Keys(MASK_CACHE')) = 1]_vars

\* a store on a full cache has inserted its frame, and entries on boundaries
\* of that call, which were not evicted, are cached next to entries off them
C30_Witness ==
    /\ lastCall.op = "store" /\ lastCall.lenBefore = MASK_CACHE_SIZE_LIMIT
    /\ ~lastCall.hadKey /\ lastCall.frame \in Keys(MASK_CACHE)
    /\ \E k \in Keys(MASK_CACHE) \ {lastCall.frame} : k \in Boundaries(lastCall.total)
    /\ \E k \in Keys(MASK_CACHE) : k \notin Boundaries(lastCall.total)

\* C24: a mask returned by lookup(f, T) is the mask of a cached entry whose
\* frame index is at the least distance from f among all cached entries.
C24_LookupReturnsClosest ==
    (lastCall.op = "lookup" /\ lookupResult.found)
        => /\ lookupResult.frame \in Keys(MASK_CACHE)
           /\ lookupResult.mask = MaskAt(MASK_CACHE, lookupResult.frame)
           /\ \A k \in Keys(MASK_CACHE) :
                 Abs(lookupResult.frame - lastCall.frame) <= Abs(k - lastCall.frame)

\* a lookup returned the mask of another frame than the one asked for, and a
\* cached entry farther away was within the tolerance too
C24_Witness ==
    /\ lastCall.op = "lookup" /\ lookupResult.found
    /\ lookupResult.frame # lastCall.frame
    /\ \E k \in Keys(MASK_CACHE) :
          /\ Abs(k - lastCall.frame) > Abs(lookupResult.frame - lastCall.frame)
          /\ 100 * Abs(k - lastCall.frame) < 3 * lastCall.total

(***************************************************************************)
(* SpecBatch: long runs of generate_frames on the one-cell grid, with or   *)
(* without the prerender module, where the timing check finds a batch slow *)
(* only among the batches that start at frame MaxSlowIdx or before.        *)
(***************************************************************************)
InitBatch ==
    /\ style = "line" /\ rows = 1 /\ cols = 1
    /\ fps \in (MaxFps - 1)..MaxFps
    /\ duration = MaxBatchDuration
    /\ indices = << >>
    /\ MASK_CACHE = << >> /\ storedTotal = << >> /\ MEMORY_PRESSURE = FALSE
    /\ lastCall = NoCall /\ lookupResult = NoMask /\ nops = 0
    /\ pc = "start"
    /\ batch_idx = 0 /\ batch_size = BaseBatchSize
    /\ end_idx = 0 /\ current_batch_size = 0 /\ frame_index = 0
    /\ frames = << >>
    /\ USE_COLOR = FALSE /\ OPTIMIZATION_LEVEL \in {0, 3}
    /\ PRERENDER_AVAILABLE \in BOOLEAN
    /\ char_mask = {}
    /\ color_data = [present |-> FALSE, colors |-> << >>]
    /\ glyph = [w |-> 0, h |-> 0, baseline |-> 0]
    /\ canvas = << >> /\ composed = "no"
    /\ extraIdle

\* the end of a batch, found slow only if it started at MaxSlowIdx or before
BatchEndEarlySlow(slow) ==
    /\ slow => batch_idx <= MaxSlowIdx
    /\ BatchEnd(slow)

NextBatch ==
    \/ GenerateFramesStart
    \/ BatchBegin
    \/ RenderFrame
    \/ \E slow \in BOOLEAN : BatchEndEarlySlow(slow)
    \/ FinalFrame
    \/ HoldFinalFrame

SpecBatch == InitBatch /\ [][NextBatch]_vars

\* the step begins a batch that is not the first of the run
IsLaterBatchBegin == pc = "batch" /\ pc' = "frame" /\ batch_idx > 0

\* C25: within one run the size chosen for a batch is never larger than the
\* size chosen for the batch before it, whatever batches were found slow.
C25_BatchSizeNeverGrows ==
    [][IsLaterBatchBegin => current_batch_size' <= current_batch_size]_vars

\* the step ends a batch and lowers the base batch size, which the driver
\* does only when it has measured the batch below 70% of the running rate
IsSlowBatchEnd == pc = "frame" /\ pc' = "batch" /\ batch_size' # batch_size

\* C26: when a batch is measured below 70% of the running average, the next
\* batch has half the size of this one, and before it starts memory pressure
\* has been signalled to the mask cache and to the glyph cache.
C26_SlowBatchHalvesNext ==
    [][IsSlowBatchEnd =>
         /\ MEMORY_PRESSURE'
         /\ PRERENDER_AVAILABLE => PRERENDER_MEMORY_PRESSURE'
         /\ batch_idx' < TotalFrames =>
               BatchSizeAt(batch_idx', TotalFrames, batch_size') = current_batch_size \div 2]_vars

(***************************************************************************)
(* SpecDriverFair: SpecDriver with the program kept running: a step that   *)
(* can be taken is taken.                                                  *)
(***************************************************************************)
SpecDriverFair == InitDriver /\ [][Next]_vars /\ WF_vars(Next)

AntGrids == {g \in (1..MaxAntCols) \X (1..MaxAntRows) : TRUE}

\* the cells random.randint can place an ant on
GridCells(c, r) == (0..(c - 1)) \X (0..(r - 1))

InitAnts ==
    /\ driverIdle
    /\ composeIdle
    /\ twinCache = << >> /\ twinFrames = << >> /\ image = 0
    /\ CHAR_CACHE = {} /\ PRERENDER_MEMORY_PRESSURE = FALSE /\ glyphPhase = "idle"
    /\ heap = << >> /\ maskObj = << >> /\ held = << >>
    /\ walkIdle
    /\ randomIdle
    /\ MASK_CACHE = << >> /\ storedTotal = << >> /\ MEMORY_PRESSURE = FALSE
    /\ lastCall = NoCall /\ lookupResult = NoMask /\ nops = 0
    /\ pc = "ants"

\* lines 287-299: the call, with n ants placed on any cells
AntsPlaced(c, r, n) ==
    /\ seqCall = NoSeqCall
    /\ \E placed \in [1..n -> GridCells(c, r)] : BeginWalk(c, r, placed)
    /\ seqCall' = [fn |-> "walking", arg |-> <<c, r>>, seed |-> ANTS_SEED, result |-> << >>]
    /\ UNCHANGED <<rng, seqFirst>>
    /\ RandomUnchanged

\* lines 303-314: one turn with any move
AntsAnyTurn(dx, dy) ==
    /\ Turn(dx, dy)
    /\ UNCHANGED randomVars
    /\ RandomUnchanged

\* lines 317-323: the step budget is used up, the rest is shuffled in
AntsFinished(s) ==
    /\ \E fin \in {FinishWalk(walkGrid[1], walkGrid[2], walkIndices, visited, s)} :
          seqCall' = [seqCall EXCEPT !.fn = "ants", !.result = fin.list]
    /\ EndWalk
    /\ UNCHANGED <<rng, seqFirst>>
    /\ RandomUnchanged

NextAnts ==
    \/ \E g \in AntGrids : \E n \in 1..MaxAnts : AntsPlaced(g[1], g[2], n)
    \/ \E dx \in {-1, 0, 1} : \E dy \in {-1, 0, 1} : AntsAnyTurn(dx, dy)
    \/ \E s \in 0..(RngModulus - 1) : AntsFinished(s)

SpecAnts == InitAnts /\ [][NextAnts]_vars

\* the elements of a sequence are pairwise different
NoRepeats(q) == \A i, j \in 1..Len(q) : q[i] = q[j] => i = j

\* every ant is on a cell of the grid
AntsInGrid ==
    \A i \in 1..Len(ants) :
        /\ 0 <= ants[i][1] /\ ants[i][1] < walkGrid[1]
        /\ 0 <= ants[i][2] /\ ants[i][2] < walkGrid[2]

\* no index is in the order twice, during the walk and when it is returned
NoIndexTwice == NoRepeats(walkIndices) /\ NoRepeats(seqCall.result)

\* the index appended in the last turn is the string position of the cell
\* the ant stood on
AppendedStringPosition ==
    walkLast.appended # -1 =>
        walkLast.appended = walkLast.at[2] * (walkGrid[1] + 1) + walkLast.at[1]

\* the index appended in the last turn is the cell linear index (row-major,
\* newlines not counted) of the cell the ant stood on, which is how the
\* reader of the order takes it
AppendedCellIndex ==
    walkLast.appended # -1 =>
        walkLast.appended = walkLast.at[2] * walkGrid[1] + walkLast.at[1]

\* C29: in the ants simulation, for every choice of start positions and
\* moves, every ant stays inside the grid after every step, no index is
\* appended to the order twice, and every index appended during the walk is
\* the cell the appending ant stood on at that step
C29_AntsAppendTheirCell == AntsInGrid /\ NoIndexTwice /\ AppendedCellIndex

\* the parts of C29 that hold: the ants stay in the grid, no index is
\* appended twice, and an appended index is the string position of the cell
AntsWalkSound == AntsInGrid /\ NoIndexTwice /\ AppendedStringPosition

\* an ant standing below the first row has appended its index
AntsAppendedBelowFirstRow == walkLast.appended # -1 /\ walkLast.at[2] > 0

====
